---- MODULE Spec2Model ----
(***************************************************************************)
(* The hotkey registry and the event loop of windows_shortcuts             *)
(* (src/src/main.rs): the App handlers driven by the winit event loop,     *)
(* the global-hotkey manager, the config file and its watcher.             *)
(***************************************************************************)
EXTENDS Integers, Sequences, FiniteSets, TLC

\* ------------------------------------------------------------------ bounds
MaxEntries == 2     \* longest [[hotkeys]] array the environment writes
MaxSignals == 2     \* most ConfigChanged user events pending at once
MaxPending == 3     \* most events pending in the hotkey, tray and menu channels together

\* ------------------------------------------------------- values of the model
Notepad == "C:/Windows/System32/notepad.exe"
Google == "https://www.google.com"
Paths == {Notepad, Google}
Shortcuts == {"Ctrl+Shift+A", "Shift+Ctrl+A", "Ctrl+Shift+B", "NotAKey"}

HotKeyA == [mods |-> {"CONTROL", "SHIFT"}, key |-> "KeyA"]
HotKeyB == [mods |-> {"CONTROL", "SHIFT"}, key |-> "KeyB"]
NoHotKey == [mods |-> {}, key |-> "none"]
HotKeys == {HotKeyA, HotKeyB}

\* hotkey.id(): one u32 per combination
HotKeyId(h) == IF h = HotKeyA THEN 1 ELSE IF h = HotKeyB THEN 2 ELSE 0

\* HotKey::from_str: tokens split at '+', modifiers in any order, one key
HotKeyFromStr(s) ==
    CASE s \in {"Ctrl+Shift+A", "Shift+Ctrl+A"} -> [ok |-> TRUE, hotkey |-> HotKeyA]
      [] s = "Ctrl+Shift+B" -> [ok |-> TRUE, hotkey |-> HotKeyB]
      [] OTHER -> [ok |-> FALSE, hotkey |-> NoHotKey]

\* struct HotkeyConfig / struct Config
HotkeyConfig == [shortcut : Shortcuts, path : Paths]
SeqsUpTo(S, n) == UNION {[1..k -> S] : k \in 0..n}
Configs == SeqsUpTo(HotkeyConfig, MaxEntries)

\* the config file: absent, unreadable, not well-formed TOML, or a document
Absent == [kind |-> "absent", hotkeys |-> <<>>]
Unreadable == [kind |-> "unreadable", hotkeys |-> <<>>]
Malformed == [kind |-> "malformed", hotkeys |-> <<>>]
Document(c) == [kind |-> "toml", hotkeys |-> c]
Files == {Absent, Unreadable, Malformed} \cup {Document(c) : c \in Configs}

\* default_config_content
DefaultConfig ==
    << [shortcut |-> "Ctrl+Shift+A", path |-> Notepad],
       [shortcut |-> "Ctrl+Shift+B", path |-> Google] >>

\* ids of tray and menu events: the Quit item's id and any other id
QuitItemId == "quit"
OtherId == "other"
InteractionIds == {QuitItemId, OtherId}
HotKeyStates == {"Pressed", "Released"}

VARIABLES
    pc,           \* "start", "waiting", "events", "exited", "aborted"
    hotkeys_map,  \* App.hotkeys_map: id -> <<hotkey, path>>
    osReg,        \* combos this process holds registered with the OS
    foreign,      \* combos other processes hold
    file,         \* content of the config file
    userQ,        \* ConfigChanged events sent through the proxy, not yet delivered
    hotkeyQ,      \* GlobalHotKeyEvent channel
    trayQ,        \* TrayIconEvent channel
    menuQ,        \* MenuEvent channel
    wake,         \* the OS has a message that wakes the loop
    exiting,      \* event_loop.exit() was called
    opened,       \* open::that calls of the current wake cycle: [path, ok]
    load_result,  \* what the last load_and_register_hotkeys returned
    leaked,       \* combos still held after the last unregister_all
    order,        \* sources handled in the current wake cycle, in order
    pending0,     \* ConfigChanged events pending when the wake cycle began
    unregister_failed  \* the last unregister_all of the wake cycle returned Err

vars == <<pc, hotkeys_map, osReg, foreign, file, userQ, hotkeyQ, trayQ, menuQ,
          wake, exiting, opened, load_result, leaked, order, pending0,
          unregister_failed>>

EmptyMap == [i \in {} |-> <<NoHotKey, "">>]
Keys(map) == {map[i][1] : i \in DOMAIN map}
Targets(map) == {map[i][2] : i \in DOMAIN map}

\* ------------------------------------------------- the OS hotkey facility
\* manager.register(hotkey): refused when the combo is already held, by this
\* process or by another one
ManagerRegister(os, fg, hk) == hk \notin (os \cup fg)

\* manager.unregister_all(keys): one unregister per key, stops at the first
\* failure; `done` are the keys released before it
ManagerUnregisterAll(os, keys, done) ==
    [ok |-> done = keys, os |-> os \ done]

\* ------------------------------------------------------------ ConfigStore
\* fs::read_to_string + toml::from_str
ReadConfig(f) ==
    CASE f.kind = "unreadable" -> [result |-> "Failed to read config file", config |-> <<>>]
      [] f.kind = "malformed" -> [result |-> "Failed to parse TOML config", config |-> <<>>]
      [] OTHER -> [result |-> "Ok", config |-> f.hotkeys]

\* load_or_create_config without the test of exists(): the default document
\* is written at every call
load_or_create_config_overwrite(f, canWrite) ==
    IF canWrite
    THEN [result |-> "Ok", config |-> DefaultConfig,
          file |-> Document(DefaultConfig), wrote |-> TRUE]
    ELSE [result |-> "Failed to write default config", config |-> <<>>,
          file |-> f, wrote |-> FALSE]

\* load_or_create_config(config_path)
load_or_create_config(f, canWrite) ==
    IF f.kind = "absent"
    THEN IF canWrite
         THEN LET r == ReadConfig(Document(DefaultConfig)) IN
              [result |-> r.result, config |-> r.config,
               file |-> Document(DefaultConfig), wrote |-> TRUE]
         ELSE [result |-> "Failed to write default config", config |-> <<>>,
               file |-> f, wrote |-> FALSE]
    ELSE LET r == ReadConfig(f) IN
         [result |-> r.result, config |-> r.config, file |-> f, wrote |-> FALSE]

\* --------------------------------------------------------- HotkeyRegistry
\* RegisterEntry without the `continue` of a refused registration: the entry
\* is inserted all the same
RegisterEntryNoContinue(e, map, os, fg) ==
    LET p == HotKeyFromStr(e.shortcut) IN
    IF p.ok
    THEN [map |-> (HotKeyId(p.hotkey) :> <<p.hotkey, e.path>>) @@ map,
          os |-> IF ManagerRegister(os, fg, p.hotkey) THEN os \cup {p.hotkey} ELSE os]
    ELSE [map |-> map, os |-> os]

\* RegisterEntry giving a combo this process already holds the target of the
\* later entry
RegisterEntryLastWins(e, map, os, fg) ==
    LET p == HotKeyFromStr(e.shortcut) IN
    IF p.ok
    THEN IF ~ManagerRegister(os, fg, p.hotkey)
         THEN IF HotKeyId(p.hotkey) \in DOMAIN map
              THEN [map |-> (HotKeyId(p.hotkey) :> <<p.hotkey, e.path>>) @@ map,
                    os |-> os]
              ELSE [map |-> map, os |-> os]
         ELSE [map |-> (HotKeyId(p.hotkey) :> <<p.hotkey, e.path>>) @@ map,
               os |-> os \cup {p.hotkey}]
    ELSE [map |-> map, os |-> os]

\* the body of the for loop of load_and_register_hotkeys
RegisterEntry(e, map, os, fg) ==
    LET p == HotKeyFromStr(e.shortcut) IN
    IF p.ok
    THEN IF ~ManagerRegister(os, fg, p.hotkey)
         THEN [map |-> map, os |-> os]
         ELSE [map |-> (HotKeyId(p.hotkey) :> <<p.hotkey, e.path>>) @@ map,
               os |-> os \cup {p.hotkey}]
    ELSE [map |-> map, os |-> os]

\* the loop left at the first entry that is not registered (`break`, or the
\* entry's error returned) instead of going on to the next
RECURSIVE RegisterAllStop(_, _, _, _)
RegisterAllStop(entries, map, os, fg) ==
    IF entries = <<>>
    THEN [map |-> map, os |-> os]
    ELSE LET r == RegisterEntry(Head(entries), map, os, fg) IN
         IF r.os = os THEN [map |-> r.map, os |-> r.os]
         ELSE RegisterAllStop(Tail(entries), r.map, r.os, fg)

\* for hotkey_config in config.hotkeys { ... }
RECURSIVE RegisterAll(_, _, _, _)
RegisterAll(entries, map, os, fg) ==
    IF entries = <<>>
    THEN [map |-> map, os |-> os]
    ELSE LET r == RegisterEntry(Head(entries), map, os, fg) IN
         RegisterAll(Tail(entries), r.map, r.os, fg)

\* load_and_register_hotkeys(manager, hotkeys_map, config_path)
load_and_register_hotkeys(map, os, fg, f, canWrite) ==
    LET c == load_or_create_config(f, canWrite) IN
    IF c.result # "Ok"
    THEN [result |-> c.result, map |-> map, os |-> os, file |-> c.file,
          wrote |-> c.wrote]
    ELSE LET r == RegisterAll(c.config, map, os, fg) IN
         [result |-> "Ok", map |-> r.map, os |-> r.os, file |-> c.file,
          wrote |-> c.wrote]

\* the clear left out
ClearMapKeep(map) == map

\* self.hotkeys_map.clear()
ClearMap(map) == EmptyMap

\* user_event with an empty match arm: the signal is dropped, nothing reloads
user_event_ignore(map, os, fg, f, done, canWrite) ==
    [map |-> map, os |-> os, file |-> f, wrote |-> FALSE, result |-> "Ok",
     held |-> os, reloaded |-> FALSE, escaped |-> "Ok", unregistered |-> TRUE]

\* user_event with the load's error unwrapped instead of logged
user_event_unwrap(map, os, fg, f, done, canWrite) ==
    LET keys == Keys(map)
        un == IF keys # {} THEN ManagerUnregisterAll(os, keys, done)
                           ELSE [ok |-> TRUE, os |-> os]
        r == load_and_register_hotkeys(ClearMap(map), un.os, fg, f, canWrite)
    IN  [map |-> r.map, os |-> r.os, file |-> r.file, wrote |-> r.wrote,
         result |-> r.result, held |-> un.os, reloaded |-> TRUE, escaped |-> r.result,
         unregistered |-> un.ok]

\* user_event returning at the error of unregister_all instead of logging it
user_event_return(map, os, fg, f, done, canWrite) ==
    LET keys == Keys(map)
        un == IF keys # {} THEN ManagerUnregisterAll(os, keys, done)
                           ELSE [ok |-> TRUE, os |-> os]
        r == load_and_register_hotkeys(ClearMap(map), un.os, fg, f, canWrite)
    IN  IF un.ok
        THEN [map |-> r.map, os |-> r.os, file |-> r.file, wrote |-> r.wrote,
              result |-> r.result, held |-> un.os, reloaded |-> TRUE,
              escaped |-> "Ok", unregistered |-> TRUE]
        ELSE [map |-> map, os |-> un.os, file |-> f, wrote |-> FALSE,
              result |-> "Failed to unregister all hotkeys", held |-> un.os,
              reloaded |-> TRUE, escaped |-> "Ok", unregistered |-> FALSE]

\* user_event writing the configuration it has loaded back to the file
user_event_save(map, os, fg, f, done, canWrite) ==
    LET keys == Keys(map)
        un == IF keys # {} THEN ManagerUnregisterAll(os, keys, done)
                           ELSE [ok |-> TRUE, os |-> os]
        r == load_and_register_hotkeys(ClearMap(map), un.os, fg, f, canWrite)
    IN  [map |-> r.map, os |-> r.os, file |-> r.file, wrote |-> r.result = "Ok",
         result |-> r.result, held |-> un.os, reloaded |-> TRUE, escaped |-> "Ok",
         unregistered |-> un.ok]

\* App::user_event, UserEvent::ConfigChanged; `escaped` is the error that
\* leaves the handler (none does: both results are logged and dropped)
user_event(map, os, fg, f, done, canWrite) ==
    LET keys == Keys(map)
        un == IF keys # {} THEN ManagerUnregisterAll(os, keys, done)
                           ELSE [ok |-> TRUE, os |-> os]
        r == load_and_register_hotkeys(ClearMap(map), un.os, fg, f, canWrite)
    IN  [map |-> r.map, os |-> r.os, file |-> r.file, wrote |-> r.wrote,
         result |-> r.result, held |-> un.os, reloaded |-> TRUE, escaped |-> "Ok",
         unregistered |-> un.ok]

\* -------------------------------------------------------- EventDispatcher
\* PollHotkey without the test of event.state
PollHotkeyAnyState(map, hq, openOk) ==
    IF hq = <<>>
    THEN <<>>
    ELSE LET event == Head(hq) IN
         IF event.id \in DOMAIN map
         THEN <<[path |-> map[event.id][2], ok |-> openOk]>>
         ELSE <<>>

\* PollHotkey looking the id up in the bindings of the default document, as
\* loaded at startup, instead of in the registry of the last reload
PollHotkeyStartup(map, hq, openOk) ==
    IF hq = <<>>
    THEN <<>>
    ELSE LET event == Head(hq)
             first == RegisterAll(DefaultConfig, EmptyMap, {}, {}).map
         IN  IF event.state = "Pressed" /\ event.id \in DOMAIN first
             THEN <<[path |-> first[event.id][2], ok |-> openOk]>>
             ELSE <<>>

\* new_events: the GlobalHotKeyEvent receiver
PollHotkey(map, hq, openOk) ==
    IF hq = <<>>
    THEN <<>>
    ELSE LET event == Head(hq) IN
         IF event.state = "Pressed" /\ event.id \in DOMAIN map
         THEN <<[path |-> map[event.id][2], ok |-> openOk]>>
         ELSE <<>>

\* PollInteraction without the comparison with quit_item_id
PollInteractionAnyId(q) == q # <<>>

\* new_events: the TrayIconEvent and the MenuEvent receiver
PollInteraction(q) == q # <<>> /\ Head(q) = QuitItemId

\* the tray and menu receivers asked before the hotkey receiver
PolledInteractionFirst(hq, tq, mq) ==
    (IF tq = <<>> THEN <<>> ELSE <<"tray">>)
    \o (IF mq = <<>> THEN <<>> ELSE <<"menu">>)
    \o (IF hq = <<>> THEN <<>> ELSE <<"hotkey">>)

\* the order in which new_events asks the three receivers
Polled(hq, tq, mq) ==
    (IF hq = <<>> THEN <<>> ELSE <<"hotkey">>)
    \o (IF tq = <<>> THEN <<>> ELSE <<"tray">>)
    \o (IF mq = <<>> THEN <<>> ELSE <<"menu">>)

\* a receiver read until it is empty (while let) instead of once (if let)
RestDrain(q) == <<>>

\* what one try_recv leaves in a channel
Rest(q) == IF q = <<>> THEN q ELSE Tail(q)

\* App::new_events
new_events(map, hq, tq, mq, openOk) ==
    [hotkeyQ |-> Rest(hq), trayQ |-> Rest(tq), menuQ |-> Rest(mq),
     opened |-> PollHotkey(map, hq, openOk),
     exit |-> PollInteraction(tq) \/ PollInteraction(mq),
     polled |-> Polled(hq, tq, mq)]

\* main with the error of the initial load logged and dropped, as user_event
\* does, instead of returned with `?`
main_ignore(f, fg, canWrite, setup) ==
    IF setup = "early_error"
    THEN [result |-> "Err", load |-> "none", map |-> EmptyMap, os |-> {}, file |-> f]
    ELSE LET r == load_and_register_hotkeys(EmptyMap, {}, fg, f, canWrite) IN
         [result |-> IF setup = "late_error" THEN "Err" ELSE "Ok",
          load |-> r.result, map |-> r.map, os |-> r.os, file |-> r.file]

\* main, up to event_loop.run_app: `setup` is "early_error" when a step before
\* the load fails, "late_error" when the tray icon or the watcher fails
main(f, fg, canWrite, setup) ==
    IF setup = "early_error"
    THEN [result |-> "Err", load |-> "none", map |-> EmptyMap, os |-> {}, file |-> f]
    ELSE LET r == load_and_register_hotkeys(EmptyMap, {}, fg, f, canWrite) IN
         [result |-> IF r.result # "Ok" THEN r.result
                     ELSE IF setup = "late_error" THEN "Err" ELSE "Ok",
          load |-> r.result, map |-> r.map, os |-> r.os, file |-> r.file]

\* ---------------------------------------------------------------- states
\* what the environment of the dispatcher runs writes to the file
Rebound == <<[shortcut |-> "Shift+Ctrl+A", path |-> Google]>>
EditFiles == {Document(Rebound), Malformed}

InitOn(F, G) ==
    /\ pc = "start"
    /\ hotkeys_map = EmptyMap
    /\ osReg = {}
    /\ foreign \in G
    /\ file \in F
    /\ userQ = 0
    /\ hotkeyQ = <<>>
    /\ trayQ = <<>>
    /\ menuQ = <<>>
    /\ wake = FALSE
    /\ exiting = FALSE
    /\ opened = <<>>
    /\ load_result = "none"
    /\ leaked = {}
    /\ order = <<>>
    /\ pending0 = 0
    /\ unregister_failed = FALSE

Listening == pc \in {"waiting", "events"}
Pending == Len(hotkeyQ) + Len(trayQ) + Len(menuQ)
Reloads(o) == Cardinality({i \in DOMAIN o : o[i] = "change"})

\* ------------------------------------------------------------ the program
\* fn main: setup, the initial load, then run_app
Main ==
    /\ pc = "start"
    /\ \E canWrite \in BOOLEAN, setup \in {"ok", "early_error", "late_error"} :
         LET r == main(file, foreign, canWrite, setup) IN
           /\ pc' = IF r.result = "Ok" THEN "waiting" ELSE "aborted"
           /\ hotkeys_map' = r.map
           /\ osReg' = r.os
           /\ file' = r.file
           /\ load_result' = r.load
    /\ UNCHANGED <<foreign, userQ, hotkeyQ, trayQ, menuQ, wake, exiting, opened,
                   leaked, order, pending0,
                   unregister_failed>>

\* the loop wakes up and calls new_events
NewEvents ==
    /\ pc = "waiting"
    /\ wake \/ userQ > 0
    /\ \E openOk \in BOOLEAN :
         LET r == new_events(hotkeys_map, hotkeyQ, trayQ, menuQ, openOk) IN
           /\ hotkeyQ' = r.hotkeyQ
           /\ trayQ' = r.trayQ
           /\ menuQ' = r.menuQ
           /\ opened' = r.opened
           /\ exiting' = r.exit
           /\ order' = r.polled
    /\ pc' = "events"
    /\ wake' = FALSE
    /\ pending0' = userQ
    /\ UNCHANGED <<hotkeys_map, osReg, foreign, file, userQ, load_result, leaked,
                   unregister_failed>>

\* the loop delivers one pending ConfigChanged to user_event; the watcher may
\* answer a write of the handler with a signal. Whether the file can be
\* written is asked only where there is no file
UserEvent ==
    /\ pc = "events"
    /\ userQ > 0
    /\ \E done \in SUBSET Keys(hotkeys_map),
          canWrite \in (IF file = Absent THEN BOOLEAN ELSE {TRUE}) :
         LET r == user_event(hotkeys_map, osReg, foreign, file, done, canWrite) IN
           /\ hotkeys_map' = r.map
           /\ osReg' = r.os
           /\ file' = r.file
           /\ load_result' = (IF r.reloaded THEN r.result ELSE load_result)
           /\ leaked' = (IF r.reloaded THEN r.held ELSE leaked)
           /\ \E echo \in (IF r.wrote THEN 0..1 ELSE {0}) : userQ' = userQ - 1 + echo
           /\ order' = (IF r.reloaded THEN Append(order, "change") ELSE order)
           /\ pc' = (IF r.escaped = "Ok" THEN "events" ELSE "aborted")
           /\ unregister_failed' = ~r.unregistered
    /\ UNCHANGED <<foreign, hotkeyQ, trayQ, menuQ, wake, exiting, opened, pending0>>

\* nothing is left to deliver: about_to_wait, and the loop blocks; the wake
\* cycle and what was observed of it end here
AboutToWait ==
    /\ pc = "events"
    /\ ~exiting
    /\ userQ = 0
    /\ pc' = "waiting"
    /\ opened' = <<>>
    /\ order' = <<>>
    /\ pending0' = 0
    /\ unregister_failed' = FALSE
    /\ UNCHANGED <<hotkeys_map, osReg, foreign, file, userQ, hotkeyQ, trayQ, menuQ,
                   wake, exiting, load_result, leaked>>

\* exit() was called in this iteration: App::exiting, run_app returns
Exiting ==
    /\ pc = "events"
    /\ exiting
    /\ pc' = "exited"
    /\ UNCHANGED <<hotkeys_map, osReg, foreign, file, userQ, hotkeyQ, trayQ, menuQ,
                   wake, exiting, opened, load_result, leaked, order, pending0,
                   unregister_failed>>

\* -------------------------------------------------------- the environment
\* the watcher callback rebuilding the registry itself, from its own thread,
\* instead of sending ConfigChanged: the registry is seen cleared
FileWriteClears(F, cap) ==
    /\ pc = "waiting"
    /\ \E c \in F \ {Absent} : file' = c
    /\ hotkeys_map' = ClearMap(hotkeys_map)
    /\ UNCHANGED <<pc, osReg, foreign, userQ, hotkeyQ, trayQ, menuQ, wake,
                   exiting, opened, load_result, leaked, order, pending0,
                   unregister_failed>>

\* the file is written (or its metadata changed): the watcher callback sends
\* one ConfigChanged per modify/create notification. The loop delivers a
\* signal sent during a wake cycle in that cycle, after new_events, as it does
\* one sent just before the cycle: the edit is taken as made before it
FileWrite(F, cap) ==
    /\ pc = "waiting"
    /\ \E c \in F \ {Absent}, n \in 1..cap :
         /\ userQ + n <= cap
         /\ file' = c
         /\ userQ' = userQ + n
    /\ UNCHANGED <<pc, hotkeys_map, osReg, foreign, hotkeyQ, trayQ, menuQ, wake,
                   exiting, opened, load_result, leaked, order, pending0,
                   unregister_failed>>

\* the file is removed: a remove notification is neither modify nor create
FileRemove ==
    /\ pc = "waiting"
    /\ file # Absent
    /\ file' = Absent
    /\ UNCHANGED <<pc, hotkeys_map, osReg, foreign, userQ, hotkeyQ, trayQ, menuQ,
                   wake, exiting, opened, load_result, leaked, order, pending0,
                   unregister_failed>>

\* a registered combo is pressed or released; the loop may or may not be woken.
\* No handler after new_events reads the three channels, so an event that
\* arrives during a wake cycle is taken as arriving right after it
HotkeyEvent ==
    /\ pc = "waiting"
    /\ Pending < MaxPending
    /\ \E h \in osReg, st \in HotKeyStates, w \in BOOLEAN :
         /\ hotkeyQ' = Append(hotkeyQ, [id |-> HotKeyId(h), state |-> st])
         /\ wake' = (wake \/ w)
    /\ UNCHANGED <<pc, hotkeys_map, osReg, foreign, file, userQ, trayQ, menuQ,
                   exiting, opened, load_result, leaked, order, pending0,
                   unregister_failed>>

TrayEvent ==
    /\ pc = "waiting"
    /\ Pending < MaxPending
    /\ \E id \in InteractionIds, w \in BOOLEAN :
         /\ trayQ' = Append(trayQ, id)
         /\ wake' = (wake \/ w)
    /\ UNCHANGED <<pc, hotkeys_map, osReg, foreign, file, userQ, hotkeyQ, menuQ,
                   exiting, opened, load_result, leaked, order, pending0,
                   unregister_failed>>

MenuEvent ==
    /\ pc = "waiting"
    /\ Pending < MaxPending
    /\ \E id \in InteractionIds, w \in BOOLEAN :
         /\ menuQ' = Append(menuQ, id)
         /\ wake' = (wake \/ w)
    /\ UNCHANGED <<pc, hotkeys_map, osReg, foreign, file, userQ, hotkeyQ, trayQ,
                   exiting, opened, load_result, leaked, order, pending0,
                   unregister_failed>>

\* another process claims or releases a combo
ForeignClaim ==
    /\ pc = "waiting"
    /\ \E h \in HotKeys \ (osReg \cup foreign) : foreign' = foreign \cup {h}
    /\ UNCHANGED <<pc, hotkeys_map, osReg, file, userQ, hotkeyQ, trayQ, menuQ, wake,
                   exiting, opened, load_result, leaked, order, pending0,
                   unregister_failed>>

ForeignRelease ==
    /\ pc = "waiting"
    /\ \E h \in foreign : foreign' = foreign \ {h}
    /\ UNCHANGED <<pc, hotkeys_map, osReg, file, userQ, hotkeyQ, trayQ, menuQ, wake,
                   exiting, opened, load_result, leaked, order, pending0,
                   unregister_failed>>

\* any other message of the thread wakes the loop
OtherMessage ==
    /\ pc = "waiting"
    /\ ~wake
    /\ wake' = TRUE
    /\ UNCHANGED <<pc, hotkeys_map, osReg, foreign, file, userQ, hotkeyQ, trayQ,
                   menuQ, exiting, opened, load_result, leaked, order, pending0,
                   unregister_failed>>

Program == Main \/ NewEvents \/ UserEvent \/ AboutToWait \/ Exiting

\* the dispatcher with all its event sources, the file edited among EditFiles
Init == InitOn({Absent, Document(DefaultConfig)}, {{}})
Next ==
    \/ Program
    \/ FileWrite(EditFiles, MaxSignals) \/ FileRemove
    \/ HotkeyEvent \/ TrayEvent \/ MenuEvent \/ OtherMessage
Spec == Init /\ [][Next]_vars

\* the registry under every file content and every foreign claim: no key is
\* pressed, no tray or menu item clicked, and the file is edited once the
\* signal of the edit before has been handled
RegistryInit == InitOn(Files, SUBSET HotKeys)
RegistryNext ==
    \/ Main \/ NewEvents \/ UserEvent \/ AboutToWait
    \/ FileWrite(Files, 1) \/ FileRemove
    \/ ForeignClaim \/ ForeignRelease
Registry == RegistryInit /\ [][RegistryNext]_vars

\* the dispatcher scheduled fairly: a handler that can run does run
FairSpec ==
    /\ Spec
    /\ WF_vars(Main) /\ WF_vars(NewEvents) /\ WF_vars(UserEvent)
    /\ WF_vars(AboutToWait) /\ WF_vars(Exiting)

\* the reloads alone, scheduled fairly: the file is absent, unreadable,
\* malformed or one of two documents, no key is pressed and no item clicked
ReloadFiles == {Unreadable, Malformed, Document(DefaultConfig), Document(Rebound)}
ReloadingInit == InitOn(ReloadFiles \cup {Absent}, {{}})
ReloadingNext ==
    \/ Main \/ NewEvents \/ UserEvent \/ AboutToWait
    \/ FileWrite(ReloadFiles, MaxSignals) \/ FileRemove \/ OtherMessage
Reloading ==
    /\ ReloadingInit /\ [][ReloadingNext]_vars
    /\ WF_vars(Main) /\ WF_vars(NewEvents) /\ WF_vars(UserEvent)
    /\ WF_vars(AboutToWait)

\* ----------------------------------------------------------------- claims
\* steps of the handlers, told from the states before and after
NewEventsStep == pc = "waiting" /\ pc' = "events"
UserEventStep == pc = "events" /\ Len(order') > Len(order)
GoesToWait == pc = "events" /\ pc' = "waiting"

\* the entries of cfg the OS accepts when it refuses the combos in `blocked`:
\* the combo parses, nobody holds it, no earlier entry has taken it
Registerable(cfg, blocked) ==
    {i \in DOMAIN cfg :
        /\ HotKeyFromStr(cfg[i].shortcut).ok
        /\ HotKeyFromStr(cfg[i].shortcut).hotkey \notin blocked
        /\ \A j \in 1..(i - 1) :
              HotKeyFromStr(cfg[j].shortcut).hotkey # HotKeyFromStr(cfg[i].shortcut).hotkey}

\* C1: outside a reload the combos of hotkeys_map are exactly the combos this
\* process holds registered with the OS
C1_LockStep == Listening => osReg = Keys(hotkeys_map)

\* C2: a reload on a file holding configuration C2 leaves exactly the targets
\* of the entries of C2 that parse and that the OS accepts, and every entry
\* left is an entry of C2
C2_ReloadTargets ==
    [][(UserEventStep /\ file.kind = "toml") =>
         /\ Targets(hotkeys_map') =
               {file.hotkeys[i].path : i \in Registerable(file.hotkeys, foreign \cup leaked')}
         /\ \A id \in DOMAIN hotkeys_map' :
               \E i \in DOMAIN file.hotkeys :
                  /\ HotKeyFromStr(file.hotkeys[i].shortcut).ok
                  /\ HotKeyFromStr(file.hotkeys[i].shortcut).hotkey = hotkeys_map'[id][1]
                  /\ file.hotkeys[i].path = hotkeys_map'[id][2]]_vars

\* a reload replaced a binding of the old configuration by one of the new
C2_Witness ==
    /\ pc = "events" /\ Reloads(order) > 0 /\ load_result = "Ok"
    /\ file.kind = "toml" /\ Len(file.hotkeys) = 1
    /\ DOMAIN hotkeys_map = {HotKeyId(HotKeyB)}

\* the registry a load builds from cfg when the OS refuses the combos in `blocked`
ExpectedMap(cfg, blocked) ==
    [id \in {HotKeyId(HotKeyFromStr(cfg[i].shortcut).hotkey) : i \in Registerable(cfg, blocked)}
       |-> LET i == CHOOSE k \in Registerable(cfg, blocked) :
                       HotKeyId(HotKeyFromStr(cfg[k].shortcut).hotkey) = id
           IN  <<HotKeyFromStr(cfg[i].shortcut).hotkey, cfg[i].path>>]

\* a load: the initial one of main, or the one of a reload
LoadStep == (pc = "start" /\ pc' # "start" /\ load_result' # "none") \/ UserEventStep

\* C3: a load of a well-formed file succeeds whatever its entries; an entry
\* that does not parse or that the OS refuses is left out, and every other
\* entry is in the registry under its combo with its own target
C3_SkipOnError ==
    [][(LoadStep /\ file.kind = "toml") =>
         /\ load_result' = "Ok"
         /\ hotkeys_map' = ExpectedMap(file.hotkeys, foreign \cup leaked')]_vars

\* a valid entry was registered after an entry that does not parse
C3_Witness ==
    /\ load_result = "Ok" /\ file.kind = "toml" /\ Len(file.hotkeys) = 2
    /\ ~HotKeyFromStr(file.hotkeys[1].shortcut).ok
    /\ HotKeyFromStr(file.hotkeys[2].shortcut).ok
    /\ hotkeys_map = ExpectedMap(file.hotkeys, {})
    /\ DOMAIN hotkeys_map # {}

\* C10: a reload whose load fails leaves the registry empty, and the next
\* reload on a well-formed file builds the registry of that file
C10_FailedReloadRecovers ==
    [][/\ (UserEventStep /\ load_result' # "Ok") => hotkeys_map' = EmptyMap
       /\ (UserEventStep /\ load_result # "Ok" /\ file.kind = "toml") =>
             /\ load_result' = "Ok"
             /\ hotkeys_map' = ExpectedMap(file.hotkeys, foreign \cup osReg)]_vars

\* a failed reload has emptied the registry, and the next ChangeSignal is
\* pending on a well-formed file with entries the OS accepts
C10_Witness ==
    /\ Listening /\ load_result \notin {"Ok", "none"} /\ hotkeys_map = EmptyMap
    /\ userQ > 0 /\ file.kind = "toml"
    /\ ExpectedMap(file.hotkeys, foreign \cup osReg) # EmptyMap

\* C4: the hotkey event new_events takes makes exactly one open call, with the
\* target stored under its id, when it is Pressed and its id is in the
\* registry, and no open call otherwise
C4_PressDispatch ==
    [][(NewEventsStep /\ hotkeyQ # <<>>) =>
         /\ hotkeyQ' = Tail(hotkeyQ)
         /\ IF Head(hotkeyQ).state = "Pressed" /\ Head(hotkeyQ).id \in DOMAIN hotkeys_map
            THEN /\ Len(opened') = 1
                 /\ opened'[1].path = hotkeys_map[Head(hotkeyQ).id][2]
            ELSE opened' = <<>>]_vars

\* a press of a bound combo has made its open call
C4_Witness ==
    /\ pc = "events" /\ Len(opened) = 1 /\ order # <<>> /\ order[1] = "hotkey"
    /\ opened[1].path \in Targets(hotkeys_map)

\* a Quit event is pending in the tray or in the menu channel
QuitPending ==
    \/ \E i \in DOMAIN trayQ : trayQ[i] = QuitItemId
    \/ \E i \in DOMAIN menuQ : menuQ[i] = QuitItemId

\* C5: once a Quit event is in its channel the loop terminates
C5_QuitTerminates == QuitPending ~> (pc = "exited")

\* rank of a source in the order the specification gives, and in the order of
\* the handlers
SpecRank(src) == CASE src = "change" -> 1 [] src = "hotkey" -> 2 [] OTHER -> 3
CodeRank(src) ==
    CASE src = "hotkey" -> 1 [] src = "tray" -> 2 [] src = "menu" -> 3 [] OTHER -> 4

\* C6 as stated: in a wake cycle the ChangeSignal is handled first, the hotkey
\* event second, the tray/menu event third
C6_ChangeFirst ==
    \A i, j \in DOMAIN order : i < j => SpecRank(order[i]) <= SpecRank(order[j])

\* C6 amended: in a wake cycle the hotkey event is handled first, the tray
\* event second, the menu event third, the ChangeSignals last
C6_ChangeLast ==
    \A i, j \in DOMAIN order : i < j => CodeRank(order[i]) <= CodeRank(order[j])

\* a wake cycle handled a press, an interaction event and then a ChangeSignal
C6_Witness ==
    /\ Len(order) = 3 /\ order[1] = "hotkey" /\ order[2] \in {"tray", "menu"}
    /\ order[3] = "change"

\* C7: the loop never goes back to waiting, no wake-up pending, with an event
\* left in the hotkey channel
C7_NoPressLeft ==
    [][(GoesToWait /\ ~wake' /\ userQ' = 0) => hotkeyQ' = <<>>]_vars

\* C8: every ChangeSignal pending when a wake cycle begins is reconciled
\* before the loop goes back to waiting, whatever the hotkey channel holds
C8_NoStarvation == [][GoesToWait => Reloads(order) >= pending0]_vars

\* a wake cycle began with a ChangeSignal and a burst of presses pending, and
\* has reconciled the signal with a press still in the channel
C8_Witness ==
    /\ pc = "events" /\ pending0 > 0 /\ Reloads(order) >= pending0 /\ userQ = 0
    /\ order[1] = "hotkey" /\ hotkeyQ # <<>> /\ ~exiting

\* C9: a reload never ends the loop, whatever fails in it, and neither does a
\* press whose open call fails, which also leaves the registry and the OS
\* registrations as they were
C9_ErrorsStayInLoop ==
    [][/\ UserEventStep => (pc' = "events" /\ exiting' = exiting)
       /\ (NewEventsStep /\ opened' # <<>> /\ ~opened'[1].ok) =>
             /\ pc' = "events"
             /\ exiting' = (PollInteraction(trayQ) \/ PollInteraction(menuQ))
             /\ hotkeys_map' = hotkeys_map
             /\ osReg' = osReg]_vars

\* in one wake cycle the open call of a press failed, then a reload failed,
\* and the loop is still running
C9_Witness ==
    /\ pc = "events" /\ Len(opened) = 1 /\ ~opened[1].ok
    /\ Reloads(order) > 0 /\ load_result \notin {"Ok", "none"}
    /\ ~exiting

\* what two consecutive calls of load_or_create_config return on file f, the
\* first allowed to write or not, and what the first call returns
FirstCall(f, canWrite) == load_or_create_config(f, canWrite)
SecondCall(f, canWrite) == load_or_create_config(FirstCall(f, canWrite).file, TRUE)

\* C11: on a path that does not exist load_or_create_config writes the default
\* document and returns its two entries; on a path that exists it leaves the
\* file as it is and returns what the file holds; a second call right after a
\* first that succeeded writes nothing and returns the same configuration.
\* The loads of the program change the file in no other way
C11_LoadOrCreateIdempotent ==
    /\ [](\A cw \in BOOLEAN :
            LET r1 == FirstCall(file, cw)
                r2 == SecondCall(file, cw)
            IN  /\ (file.kind = "absent" /\ cw) =>
                      /\ r1.wrote /\ r1.file = Document(DefaultConfig)
                      /\ r1.result = "Ok" /\ r1.config = DefaultConfig
                      /\ Len(r1.config) = 2
                /\ file.kind # "absent" =>
                      /\ ~r1.wrote /\ r1.file = file
                      /\ r1.result = "Ok" => r1.config = file.hotkeys
                /\ r1.result = "Ok" =>
                      /\ ~r2.wrote /\ r2.file = r1.file
                      /\ r2.result = "Ok" /\ r2.config = r1.config)
    /\ [][LoadStep =>
            /\ file.kind # "absent" => file' = file
            /\ file.kind = "absent" => file' \in {file, Document(DefaultConfig)}
            /\ (file.kind = "absent" /\ file' # file) =>
                  /\ load_result' = "Ok"
                  /\ hotkeys_map' = ExpectedMap(DefaultConfig, foreign \cup leaked')]_vars

\* a reload found no file and wrote the default document, the signal of that
\* write brought a second reload in the same wake cycle, and the second load
\* succeeded on the file the first one wrote
C11_Witness ==
    /\ pc = "events" /\ pending0 = 1 /\ Reloads(order) = 2
    /\ file = Document(DefaultConfig) /\ load_result = "Ok"

\* C12: a reload that follows another reload in the same wake cycle, the file
\* and the claims of other processes as the first one left them, leaves the
\* registry and the OS registrations as the first one left them
C12_ReloadIdempotent ==
    [][(UserEventStep /\ Reloads(order) >= 1 /\ file' = file) =>
          (hotkeys_map' = hotkeys_map /\ osReg' = osReg)]_vars

\* the watcher callback has sent ChangeSignals
WatcherStep == pc = "waiting" /\ userQ' > userQ

\* C13: hotkeys_map and the OS registrations change only in the initial load
\* and in user_event; the watcher only adds ChangeSignals, and new_events,
\* about_to_wait and exiting leave the registry as it is, so that the lookup
\* of a press is made in the registry a whole load has left
C13_SingleMutator ==
    [][/\ (hotkeys_map' # hotkeys_map \/ osReg' # osReg) =>
              (pc = "start" \/ UserEventStep)
       /\ (NewEventsStep \/ GoesToWait \/ pc' = "exited") =>
              (hotkeys_map' = hotkeys_map /\ osReg' = osReg)
       /\ WatcherStep =>
              /\ hotkeys_map' = hotkeys_map /\ osReg' = osReg
              /\ pc' = pc /\ hotkeyQ' = hotkeyQ /\ opened' = opened
       /\ (NewEventsStep /\ opened' # <<>>) =>
              /\ Head(hotkeyQ).id \in DOMAIN hotkeys_map
              /\ opened'[1].path = hotkeys_map[Head(hotkeyQ).id][2]]_vars

\* with a ChangeSignal pending a press was looked up in the whole registry of
\* the old configuration, and the reload after it then replaced that binding
C13_Witness ==
    /\ pc = "events" /\ order = <<"hotkey", "change">> /\ Len(opened) = 1
    /\ hotkeys_map # EmptyMap /\ opened[1].path \notin Targets(hotkeys_map)

\* new_events has taken a Quit event from the head of the tray or of the menu
\* channel
ConsumesQuit ==
    /\ NewEventsStep
    /\ \/ trayQ # <<>> /\ Head(trayQ) = QuitItemId /\ trayQ' = Tail(trayQ)
       \/ menuQ # <<>> /\ Head(menuQ) = QuitItemId /\ menuQ' = Tail(menuQ)

\* C14: the loop is left only by exiting, after exit() was called, and exit()
\* is called only by a new_events that has taken a tray or menu event carrying
\* the Quit item's id; a new_events that takes no such event, and a reload,
\* whatever its result, keep the loop running
C14_OnlyQuitTerminates ==
    [][/\ (Listening /\ ~Listening') => (pc' = "exited" /\ exiting)
       /\ (exiting' /\ ~exiting) => ConsumesQuit
       /\ (NewEventsStep /\ ~ConsumesQuit) => (~exiting' /\ pc' = "events")
       /\ UserEventStep => (pc' = "events" /\ exiting' = exiting)]_vars

\* the loop ran through a failed reload and through presses and events of
\* other ids, and ended in the wake cycle that took a Quit event
C14_Witness ==
    /\ pc = "exited" /\ load_result \notin {"Ok", "none"}
    /\ \E i \in DOMAIN order : order[i] \in {"tray", "menu"}

\* how many times a wake cycle handled a source
Handled(o, src) == Cardinality({i \in DOMAIN o : o[i] = src})

C16_UnregisterFailureGoesOn ==
    [][(UserEventStep /\ unregister_failed') =>
          /\ pc' = "events"
          /\ leaked' \cap Keys(hotkeys_map) # {}
          /\ \A id \in DOMAIN hotkeys_map' : hotkeys_map'[id][1] \notin leaked'
          /\ file.kind = "toml" =>
                /\ load_result' = "Ok"
                /\ hotkeys_map' = ExpectedMap(file.hotkeys, foreign \cup leaked')
                /\ osReg' = leaked' \cup Keys(hotkeys_map')
          /\ file.kind = "malformed" =>
                (load_result' = "Failed to parse TOML config" /\ hotkeys_map' = EmptyMap)
          /\ file.kind = "unreadable" =>
                (load_result' = "Failed to read config file" /\ hotkeys_map' = EmptyMap)
          /\ file.kind = "absent" =>
                \/ /\ file' = Document(DefaultConfig) /\ load_result' = "Ok"
                   /\ hotkeys_map' = ExpectedMap(DefaultConfig, foreign \cup leaked')
                \/ /\ file' = file /\ load_result' = "Failed to write default config"
                   /\ hotkeys_map' = EmptyMap]_vars

\* unregister_all failed in a reload after releasing one of two combos, and
\* the reload registered the entry of the new configuration under the
\* released combo
C16_Witness ==
    /\ pc = "events" /\ unregister_failed /\ load_result = "Ok"
    /\ leaked # {} /\ hotkeys_map # EmptyMap
    /\ Keys(hotkeys_map) \cap leaked = {}

\* no ChangeSignal is pending and the file is the well-formed one the last
\* load has read
Settled == userQ = 0 /\ file.kind = "toml"

\* C17: the registry holds the bindings the last load built, so that the press
\* event new_events takes, whenever it was put in the channel, makes an open
\* call only if its id is bound in that registry, and then with the target
\* bound there; an id that is no longer bound makes no open call
C17_NoStaleBinding ==
    /\ []((Listening /\ Settled) =>
             hotkeys_map = ExpectedMap(file.hotkeys, foreign \cup leaked))
    /\ [][(NewEventsStep /\ hotkeyQ # <<>>) =>
            /\ Head(hotkeyQ).id \notin DOMAIN hotkeys_map => opened' = <<>>
            /\ opened' # <<>> =>
                  /\ Len(opened') = 1
                  /\ opened'[1].path = hotkeys_map[Head(hotkeyQ).id][2]
            /\ (opened' # <<>> /\ Settled) =>
                  \E i \in Registerable(file.hotkeys, foreign \cup leaked) :
                     /\ HotKeyId(HotKeyFromStr(file.hotkeys[i].shortcut).hotkey)
                           = Head(hotkeyQ).id
                     /\ file.hotkeys[i].path = opened'[1].path]_vars

\* a press of Ctrl+Shift+A put in the channel under the default configuration
\* was taken after the reload that rebinds the combo, and opened the new
\* target; behind it in the channel is an event of Ctrl+Shift+B, which the
\* new configuration does not bind
C17_Witness ==
    /\ pc = "events" /\ order = <<"hotkey">> /\ Settled
    /\ file = Document(Rebound) /\ DOMAIN hotkeys_map = {HotKeyId(HotKeyA)}
    /\ Len(opened) = 1 /\ opened[1].path = Google
    /\ osReg = {HotKeyA}
    /\ hotkeyQ # <<>> /\ Head(hotkeyQ).id = HotKeyId(HotKeyB)

\* main has run up to run_app or up to the error it returns
MainStep == pc = "start" /\ pc' # "start"

\* C18: main enters the loop only after an initial load that succeeded and a
\* setup, the watch included, that succeeded; when the load fails, on a file
\* that cannot be created or read or that is malformed, or when the watch
\* fails, main returns the error, and after that no handler runs: nothing is
\* dispatched, nothing reloaded
C18_StartupErrorsAbort ==
    /\ [](pc = "start" =>
            \A cw \in BOOLEAN :
               /\ main(file, foreign, cw, "late_error").result # "Ok"
               /\ main(file, foreign, cw, "early_error").result # "Ok"
               /\ main(file, foreign, cw, "ok").load # "Ok" =>
                     main(file, foreign, cw, "ok").result # "Ok"
               /\ (file.kind \in {"unreadable", "malformed"}
                     \/ (file.kind = "absent" /\ ~cw)) =>
                     main(file, foreign, cw, "ok").load # "Ok")
    /\ [][MainStep =>
            /\ pc' \in {"waiting", "aborted"}
            /\ load_result' # "Ok" => pc' = "aborted"
            /\ file.kind \in {"unreadable", "malformed"} => pc' = "aborted"]_vars
    /\ [](pc = "aborted" => (opened = <<>> /\ order = <<>> /\ ~exiting))
    /\ [][pc = "aborted" => UNCHANGED vars]_vars

\* main has returned the error of an initial load on a malformed file
C18_Witness ==
    /\ pc = "aborted" /\ file = Malformed
    /\ load_result = "Failed to parse TOML config"
    /\ hotkeys_map = EmptyMap /\ order = <<>>

\* entry i of cfg is the first of its combo and entry j a later one of the
\* same combo
Duplicates(cfg, i, j) ==
    /\ i < j
    /\ HotKeyFromStr(cfg[i].shortcut).ok /\ HotKeyFromStr(cfg[j].shortcut).ok
    /\ HotKeyFromStr(cfg[i].shortcut).hotkey = HotKeyFromStr(cfg[j].shortcut).hotkey
    /\ \A k \in 1..(i - 1) :
          HotKeyFromStr(cfg[k].shortcut).hotkey # HotKeyFromStr(cfg[i].shortcut).hotkey

External == pc = "waiting" /\ pc' = "waiting"

\* the loop waits, or has ended, with nothing to wake it
Idle ==
    \/ pc = "waiting" /\ userQ = 0 /\ ~wake
    \/ pc \in {"exited", "aborted"}

\* C20: a reload changes the file only by writing the default document where
\* there was no file, and only such a reload leaves as many ChangeSignals
\* pending as it found; the reload of a signal its own write has caused finds
\* the file and writes nothing. So, unless the environment acts again and
\* again, the loop comes to wait, or ends, for good
C20_ReloadSettles ==
    /\ [][UserEventStep =>
            /\ file' # file => (file.kind = "absent" /\ file' = Document(DefaultConfig))
            /\ userQ' >= userQ => (file.kind = "absent" /\ file' = Document(DefaultConfig))
            /\ file.kind # "absent" => (file' = file /\ userQ' = userQ - 1)
            /\ file'.kind \in {"absent", file.kind, "toml"}]_vars
    /\ ([]<><<External>>_vars \/ <>[]Idle)

\* a reload found no file and wrote the default document, and a ChangeSignal
\* of that write is pending behind it, the only one
C20_Witness ==
    /\ pc = "events" /\ pending0 = 1 /\ Reloads(order) = 1 /\ userQ >= 1
    /\ file = Document(DefaultConfig) /\ load_result = "Ok"

====
